---- MODULE Spec2Model ----
(***************************************************************************)
(* Model of kit (block/devkit): backend detection, target resolution and   *)
(* dispatch.  Strings are sequences of one-character strings, paths are    *)
(* sequences of components (as std::path::Path compares and splits them),  *)
(* the filesystem is a set of directories and a set of files.              *)
(***************************************************************************)
EXTENDS Integers, Sequences, FiniteSets, TLC

VARIABLES
    fs,             \* [dirs, files]: absolute paths that exist on disk
    cwd,            \* canonical current directory of the process
    cli,            \* [command, dirs]: parsed command line
    changed_files,  \* result of git::changed_files (sorted, duplicate-free)
    query,          \* what `bazel query` does when it is run
    tools,          \* [path, fails, engine]: tools on the path, failing
                    \* invocations, targets the build graph defines
    pc,             \* position of the run
    backend,        \* selected backend name, or "none"
    targets,        \* resolved target list
    stderr,         \* diagnostics written to the error stream
    invoked,        \* external tool invocations made by backend operations
    ops,            \* backend operations entered (build, test, lint, fmt)
    outcome,        \* result of the run: "running", "ok", "err"
    stdout,         \* lines written to the standard output stream
    dedup_in        \* argument list of a direct deduplicate_to_packages call

vars == <<fs, cwd, cli, changed_files, query, tools, pc, backend, targets,
          stderr, invoked, ops, outcome, stdout, dedup_in>>

----------------------------------------------------------------------------
(* Bounds of the model *)

MaxChanged == 2
MaxLines == 2
MaxArgs == 2
MaxTargets == 3

----------------------------------------------------------------------------
(* Strings: Rust str / OsStr, compared byte-wise *)

Range(s) == {s[i] : i \in 1..Len(s)}

Upper ==
    <<"A", "B", "C", "D", "E", "F", "G", "H", "I", "J", "K", "L", "M",
      "N", "O", "P", "Q", "R", "S", "T", "U", "V", "W", "X", "Y", "Z">>

Lower ==
    <<"a", "b", "c", "d", "e", "f", "g", "h", "i", "j", "k", "l", "m",
      "n", "o", "p", "q", "r", "s", "t", "u", "v", "w", "x", "y", "z">>

\* the byte of each character the model uses (ASCII)
Code ==
    [i \in {} |-> 0]
        @@ ("-" :> 45) @@ ("." :> 46) @@ ("/" :> 47) @@ (":" :> 58)
        @@ ("?" :> 63) @@ ("\\" :> 92) @@ ("_" :> 95)
        @@ [c \in Range(Upper) |-> 64 + (CHOOSE i \in 1..26 : Upper[i] = c)]
        @@ [c \in Range(Lower) |-> 96 + (CHOOSE i \in 1..26 : Lower[i] = c)]

\* a < b in the order of str::cmp (lexicographic on bytes)
StrLess(a, b) ==
    \E i \in 1..(Len(a) + 1) :
        /\ i <= Len(b)
        /\ \A j \in 1..(i - 1) : a[j] = b[j]
        /\ (i = Len(a) + 1 \/ Code[a[i]] < Code[b[i]])

StartsWith(s, prefix) ==
    /\ Len(prefix) <= Len(s)
    /\ SubSeq(s, 1, Len(prefix)) = prefix

EndsWith(s, suffix) ==
    /\ Len(suffix) <= Len(s)
    /\ SubSeq(s, Len(s) - Len(suffix) + 1, Len(s)) = suffix

\* str::replace(from, to) for single characters
Replace(s, from, to) == [i \in 1..Len(s) |-> IF s[i] = from THEN to ELSE s[i]]

\* s.split(c).next(): the text before the first c (all of s when c is absent)
SplitFirst(s, c) ==
    IF \E i \in 1..Len(s) : s[i] = c
    THEN SubSeq(s, 1, (CHOOSE i \in 1..Len(s) :
                          s[i] = c /\ \A j \in 1..(i - 1) : s[j] # c) - 1)
    ELSE s

\* s.trim_start_matches("//")
RECURSIVE TrimStartSlashes(_)
TrimStartSlashes(s) ==
    IF StartsWith(s, <<"/", "/">>)
    THEN TrimStartSlashes(SubSeq(s, 3, Len(s)))
    ELSE s

\* the elements of a set of strings as the sequence a BTreeSet<String> yields
RECURSIVE SortStrings(_)
SortStrings(S) ==
    IF S = {} THEN <<>>
    ELSE LET m == CHOOSE x \in S : \A y \in S \ {x} : StrLess(x, y)
         IN  <<m>> \o SortStrings(S \ {m})

----------------------------------------------------------------------------
(* Paths: std::path::Path as its sequence of components *)

RootDir == <<"/">>
ParentDir == <<".", ".">>
CurDir == <<".">>

IsAbsolute(p) == Len(p) > 0 /\ p[1] = RootDir

\* Path::join / PathBuf::push
Join(p, q) == IF IsAbsolute(q) THEN q ELSE p \o q

\* Path::strip_prefix(base).is_ok(): component-wise, nothing is resolved
HasPrefix(p, base) == StartsWith(p, base)

\* Path::strip_prefix(base).unwrap_or(p)
StripPrefixOr(p, base) ==
    IF HasPrefix(p, base) THEN SubSeq(p, Len(base) + 1, Len(p)) ELSE p

\* Path::parent().is_some()
HasParent(p) == Len(p) > 0 /\ p[Len(p)] # RootDir

Parent(p) == SubSeq(p, 1, Len(p) - 1)

\* Path::file_name().is_some()
HasFileName(p) == Len(p) > 0 /\ p[Len(p)] \notin {RootDir, ParentDir}

FileName(p) == p[Len(p)]

\* Path::extension().is_some(): a dot that is not the first character
HasExtension(p) ==
    /\ HasFileName(p)
    /\ \E i \in 2..Len(FileName(p)) : FileName(p)[i] = "."

Extension(p) ==
    LET n == FileName(p)
        d == CHOOSE i \in 2..Len(n) :
                n[i] = "." /\ \A j \in (i + 1)..Len(n) : n[j] # "."
    IN  SubSeq(n, d + 1, Len(n))

\* Path::to_string_lossy
RECURSIVE JoinSlash(_)
JoinSlash(p) ==
    IF Len(p) = 0 THEN <<>>
    ELSE IF Len(p) = 1 THEN p[1]
    ELSE p[1] \o <<"/">> \o JoinSlash(Tail(p))

ToStringLossy(p) ==
    IF IsAbsolute(p) THEN <<"/">> \o JoinSlash(Tail(p)) ELSE JoinSlash(p)

\* Path::new(s).components(): split at '/', empty and '.' pieces vanish
RECURSIVE SplitSlash(_)
SplitSlash(s) ==
    IF Len(s) = 0 THEN <<>>
    ELSE LET piece == SplitFirst(s, "/")
             rest == IF Len(piece) = Len(s) THEN <<>>
                     ELSE SubSeq(s, Len(piece) + 2, Len(s))
         IN  (IF piece \in {<<>>, CurDir} THEN <<>> ELSE <<piece>>)
                \o SplitSlash(rest)

PathFromStr(s) ==
    IF Len(s) > 0 /\ s[1] = "/" THEN <<RootDir>> \o SplitSlash(s)
    ELSE SplitSlash(s)

\* Ord for Component: RootDir < CurDir < ParentDir < Normal(bytes)
Rank(c) == IF c = RootDir THEN 1 ELSE IF c = CurDir THEN 2
           ELSE IF c = ParentDir THEN 3 ELSE 4

ComponentLess(c, d) ==
    \/ Rank(c) < Rank(d)
    \/ Rank(c) = 4 /\ Rank(d) = 4 /\ StrLess(c, d)

\* Ord for Path: lexicographic on components
PathLess(p, q) ==
    \E i \in 1..(Len(p) + 1) :
        /\ i <= Len(q)
        /\ \A j \in 1..(i - 1) : p[j] = q[j]
        /\ (i = Len(p) + 1 \/ ComponentLess(p[i], q[i]))

\* the elements of a set of paths as the sequence a BTreeSet<PathBuf> yields
RECURSIVE SortPaths(_)
SortPaths(S) ==
    IF S = {} THEN <<>>
    ELSE LET m == CHOOSE x \in S : \A y \in S \ {x} : PathLess(x, y)
         IN  <<m>> \o SortPaths(S \ {m})

IsSortedPaths(s) == \A i \in 1..(Len(s) - 1) : PathLess(s[i], s[i + 1])

----------------------------------------------------------------------------
(* Filesystem *)

\* the location a path denotes once the OS resolves its '..' components
\* (no symbolic links); NoPath when an intermediate directory is missing
NoPath == <<<<"?">>>>

RECURSIVE Walk(_, _, _)
Walk(disk, at, rest) ==
    IF Len(rest) = 0 THEN at
    ELSE IF at \notin disk.dirs THEN NoPath
    ELSE IF rest[1] = ParentDir
         THEN Walk(disk, IF Len(at) > 1 THEN Parent(at) ELSE at, Tail(rest))
         ELSE Walk(disk, Append(at, rest[1]), Tail(rest))

Resolve(disk, p) == Walk(disk, <<RootDir>>, Tail(p))

\* Path::exists, Path::is_file
Exists(disk, p) == Resolve(disk, p) \in disk.dirs \cup disk.files
IsFile(disk, p) == Resolve(disk, p) \in disk.files

----------------------------------------------------------------------------
(* Names *)

BUILD == <<"B", "U", "I", "L", "D">>
DotBazel == <<".", "b", "a", "z", "e", "l">>
BUILD_bazel == BUILD \o DotBazel
WORKSPACE == <<"W", "O", "R", "K", "S", "P", "A", "C", "E">>
WORKSPACE_bazel == WORKSPACE \o DotBazel
MODULE_bazel == <<"M", "O", "D", "U", "L", "E">> \o DotBazel
go_mod == <<"g", "o", ".", "m", "o", "d">>
go_sum == <<"g", "o", ".", "s", "u", "m">>
go_work == <<"g", "o", ".", "w", "o", "r", "k">>
go_work_sum == go_work \o <<".", "s", "u", "m">>
pnpm_workspace_yaml ==
    <<"p", "n", "p", "m", "-", "w", "o", "r", "k", "s", "p", "a", "c", "e",
      ".", "y", "a", "m", "l">>
pnpm_lock_yaml ==
    <<"p", "n", "p", "m", "-", "l", "o", "c", "k", ".", "y", "a", "m", "l">>
yarn_lock == <<"y", "a", "r", "n", ".", "l", "o", "c", "k">>
nx_json == <<"n", "x", ".", "j", "s", "o", "n">>
turbo_json == <<"t", "u", "r", "b", "o", ".", "j", "s", "o", "n">>

\* the repository root (canonical, absolute) and a directory beside it
Work == <<RootDir, <<"w">>>>
RepoRoot == Work \o <<(<<"r">>)>>
Outside == Work \o <<(<<"o">>)>>

Target(label, dir) == [label |-> label, dir |-> dir]

Labels(ts) == [i \in 1..Len(ts) |-> ts[i].label]
Dirs(ts) == [i \in 1..Len(ts) |-> ts[i].dir]

\* the outcome of an operation: result, diagnostics, tools run
Outcome(result, warnings, runs) ==
    [result |-> result, stderr |-> warnings, invoked |-> runs]

Invocation(cmd, sub, args) == [cmd |-> cmd, sub |-> sub, args |-> args]

\* run(cmd, args, dir): the tool is started when it is on the path, and the
\* result is Ok iff it started and exited with success
Run(env, cmd, sub, args) ==
    Outcome(IF cmd \in env.path /\ <<cmd, sub>> \notin env.fails
            THEN "ok" ELSE "err",
            <<>>,
            IF cmd \in env.path THEN <<Invocation(cmd, sub, args)>> ELSE <<>>)

\* `<engine> run <target> -- args`: fails also when the build graph does
\* not define the target
RunTarget(env, cmd, target, args) ==
    LET r == Run(env, cmd, "run " \o target, args)
    IN  Outcome(IF target \in env.engine THEN r.result ELSE "err",
                r.stderr, r.invoked)

\* a ? b: b runs only when a succeeded
AndThen(a, b) ==
    IF a.result = "ok"
    THEN Outcome(b.result, a.stderr \o b.stderr, a.invoked \o b.invoked)
    ELSE a

Warn(msg, o) == Outcome(o.result, <<msg>> \o o.stderr, o.invoked)

----------------------------------------------------------------------------
(* backend/bazel.rs *)

which_exists(env, cmd) == cmd \in env.path

bazel_cmd(env) == IF which_exists(env, "bazelisk") THEN "bazelisk" ELSE "bazel"

label_to_dir(repo_root, label) ==
    Join(repo_root, PathFromStr(SplitFirst(TrimStartSlashes(label), ":")))

\* Result<Vec<Target>>: ok with targets, or an error; runs: the tool started
query_rdeps(env, q, repo_root, changed) ==
    IF Len(changed) = 0
    THEN [ok |-> TRUE, targets |-> <<>>, runs |-> <<>>]
    ELSE LET call == Invocation(bazel_cmd(env), "query", changed)
         IN  IF bazel_cmd(env) \notin env.path
             THEN [ok |-> FALSE, targets |-> <<>>, runs |-> <<>>]
             ELSE IF ~q.utf8
             THEN [ok |-> FALSE, targets |-> <<>>, runs |-> <<call>>]
             ELSE LET lines == SelectSeq(q.lines, LAMBDA l : Len(l) > 0)
                  IN  [ok |-> TRUE,
                       targets |-> [i \in 1..Len(lines) |->
                           Target(lines[i], label_to_dir(repo_root, lines[i]))],
                       runs |-> <<call>>]

\* packages collected in a Vec, in the order of their first occurrence
deduplicate_to_packages_Unsorted(repo_root, ts) ==
    LET labels == [i \in 1..Len(ts) |->
                      SplitFirst(ts[i].label, ":") \o <<":", "a", "l", "l">>]
        firsts == {i \in 1..Len(ts) : \A j \in 1..(i - 1) : labels[j] # labels[i]}
        RECURSIVE Pick(_)
        Pick(i) == IF i > Len(ts) THEN <<>>
                   ELSE (IF i \in firsts THEN <<labels[i]>> ELSE <<>>) \o Pick(i + 1)
        kept == Pick(1)
    IN  [i \in 1..Len(kept) |->
            Target(kept[i],
                   Join(repo_root,
                        PathFromStr(SplitFirst(TrimStartSlashes(kept[i]), ":"))))]

deduplicate_to_packages(repo_root, ts) ==
    LET packages == {SplitFirst(ts[i].label, ":") \o <<":", "a", "l", "l">> :
                        i \in 1..Len(ts)}
        sorted == SortStrings(packages)
    IN  [i \in 1..Len(sorted) |->
            Target(sorted[i],
                   Join(repo_root,
                        PathFromStr(SplitFirst(TrimStartSlashes(sorted[i]), ":"))))]

\* the label built from the relative path also at the root
Bazel_resolve_target_NoRootCase(repo_root, dir) ==
    LET rel == Replace(ToStringLossy(StripPrefixOr(dir, repo_root)), "\\", "/")
    IN  Target(<<"/", "/">> \o rel \o <<":", "a", "l", "l">>, dir)

Bazel_resolve_target(repo_root, dir) ==
    LET rel == Replace(ToStringLossy(StripPrefixOr(dir, repo_root)), "\\", "/")
    IN  Target(IF Len(rel) = 0
               THEN <<"/", "/", ".", ".", ".", ":", "a", "l", "l">>
               ELSE <<"/", "/">> \o rel \o <<":", "a", "l", "l">>,
               dir)

\* the walk without its stop at the repository root
RECURSIVE AncestorSearch_PastRoot(_, _, _)
AncestorSearch_PastRoot(disk, repo_root, d) ==
    IF Exists(disk, Join(d, <<BUILD>>)) \/ Exists(disk, Join(d, <<BUILD_bazel>>))
    THEN {d}
    ELSE IF HasParent(d) THEN AncestorSearch_PastRoot(disk, repo_root, Parent(d))
    ELSE {}

\* the while loop of the fallback: the package directory found from d, if any
RECURSIVE AncestorSearch(_, _, _)
AncestorSearch(disk, repo_root, d) ==
    IF Exists(disk, Join(d, <<BUILD>>)) \/ Exists(disk, Join(d, <<BUILD_bazel>>))
    THEN {d}
    ELSE IF d = repo_root THEN {}
    ELSE IF HasParent(d) THEN AncestorSearch(disk, repo_root, Parent(d))
    ELSE {}

FallbackPackages(disk, repo_root, changed) ==
    UNION {IF HasParent(changed[i])
           THEN AncestorSearch(disk, repo_root, Join(repo_root, Parent(changed[i])))
           ELSE {} : i \in 1..Len(changed)}

QueryFailedWarning ==
    <<"kit: bazel query failed, falling back to package detection">>

Bazel_affected_targets(disk, env, q, repo_root, changed) ==
    LET r == query_rdeps(env, q, repo_root, changed)
    IN  IF r.ok
        THEN [targets |-> deduplicate_to_packages(repo_root, r.targets),
              stderr |-> <<>>, invoked |-> r.runs]
        ELSE LET packages == SortPaths(FallbackPackages(disk, repo_root, changed))
             IN  [targets |-> [i \in 1..Len(packages) |->
                                  Bazel_resolve_target(repo_root, packages[i])],
                  stderr |-> <<QueryFailedWarning>>, invoked |-> r.runs]

Bazel_build(env, repo_root, ts) ==
    IF Len(ts) = 0 THEN Outcome("ok", <<>>, <<>>)
    ELSE Run(env, bazel_cmd(env), "build", Labels(ts))

Bazel_test(env, repo_root, ts) ==
    IF Len(ts) = 0 THEN Outcome("ok", <<>>, <<>>)
    ELSE Run(env, bazel_cmd(env), "test", Labels(ts))

Bazel_lint(env, repo_root, ts) ==
    IF Len(ts) = 0 THEN Outcome("ok", <<>>, <<>>)
    ELSE IF which_exists(env, "buildifier")
    THEN LET first == RunTarget(env, bazel_cmd(env), "//:buildifier", Labels(ts))
             direct == Run(env, "buildifier", "-lint=warn", Dirs(ts))
         IN  IF first.result = "ok" THEN first
             ELSE Outcome(direct.result,
                     <<(<<"kit: //:buildifier target not found, running buildifier directly">>)>>,
                     first.invoked \o direct.invoked)
    ELSE Outcome("ok", <<(<<"kit: buildifier not found, skipping lint">>)>>, <<>>)

IsBuildFile(f) ==
    /\ HasFileName(f)
    /\ \/ FileName(f) \in {BUILD, BUILD_bazel, WORKSPACE, WORKSPACE_bazel,
                           MODULE_bazel}
       \/ EndsWith(FileName(f), <<".", "b", "z", "l">>)

Bazel_fmt(disk, env, repo_root, changed) ==
    LET named == SelectSeq(changed, IsBuildFile)
        joined == [i \in 1..Len(named) |-> Join(repo_root, named[i])]
        build_files == SelectSeq(joined, LAMBDA f : Exists(disk, f))
    IN  IF Len(build_files) = 0 THEN Outcome("ok", <<>>, <<>>)
        ELSE IF ~which_exists(env, "buildifier")
        THEN Outcome("ok", <<(<<"kit: buildifier not found, skipping format">>)>>, <<>>)
        ELSE Run(env, "buildifier", "-mode=fix", build_files)

Bazel_detect(disk, dir) ==
    \/ Exists(disk, Join(dir, <<WORKSPACE>>))
    \/ Exists(disk, Join(dir, <<WORKSPACE_bazel>>))
    \/ Exists(disk, Join(dir, <<MODULE_bazel>>))

----------------------------------------------------------------------------
(* backend/go.rs *)

Go_detect(disk, dir) ==
    Exists(disk, Join(dir, <<go_mod>>)) \/ Exists(disk, Join(dir, <<go_work>>))

Go_resolve_target(repo_root, dir) ==
    LET rel == Replace(ToStringLossy(StripPrefixOr(dir, repo_root)), "\\", "/")
    IN  Target(IF Len(rel) = 0
               THEN <<".", "/", ".", ".", ".">>
               ELSE <<".", "/">> \o rel \o <<"/", ".", ".", ".">>,
               dir)

\* the name test without go.sum
is_dep_file_NoSum(file) ==
    HasFileName(file) /\ FileName(file) \in {go_mod, go_work, go_work_sum}

is_dep_file(file) ==
    HasFileName(file) /\ FileName(file) \in {go_mod, go_sum, go_work, go_work_sum}

IsGoFile(file) == HasExtension(file) /\ Extension(file) = <<"g", "o">>

\* the directories one changed file puts into the package set
GoPackagesOf(disk, repo_root, file) ==
    IF is_dep_file(file)
    THEN {IF HasParent(file) THEN Join(repo_root, Parent(file)) ELSE repo_root}
    ELSE IF IsGoFile(file) /\ HasParent(file)
              /\ Exists(disk, Join(repo_root, Parent(file)))
    THEN {Join(repo_root, Parent(file))}
    ELSE {}

\* the packages pushed to a Vec, one entry per changed file
Go_affected_targets_NoSet(disk, repo_root, changed) ==
    LET RECURSIVE Collect(_)
        Collect(i) ==
            IF i > Len(changed) THEN <<>>
            ELSE SortPaths(GoPackagesOf(disk, repo_root, changed[i]))
                    \o Collect(i + 1)
        packages == Collect(1)
    IN  [i \in 1..Len(packages) |-> Go_resolve_target(repo_root, packages[i])]

Go_affected_targets(disk, repo_root, changed) ==
    LET packages == SortPaths(UNION {GoPackagesOf(disk, repo_root, changed[i]) :
                                        i \in 1..Len(changed)})
    IN  [i \in 1..Len(packages) |-> Go_resolve_target(repo_root, packages[i])]

\* build without the early return on an empty target list
Go_build_NoEmptyCheck(env, repo_root, ts) ==
    Run(env, "go", "build", Labels(ts))

Go_build(env, repo_root, ts) ==
    IF Len(ts) = 0 THEN Outcome("ok", <<>>, <<>>)
    ELSE Run(env, "go", "build", Labels(ts))

Go_test(env, repo_root, ts) ==
    IF Len(ts) = 0 THEN Outcome("ok", <<>>, <<>>)
    ELSE Run(env, "go", "test", Labels(ts))

Go_lint(env, repo_root, ts) ==
    IF Len(ts) = 0 THEN Outcome("ok", <<>>, <<>>)
    ELSE Run(env, "golangci-lint", "run", Labels(ts))

\* fmt without the filter on the extension
Go_fmt_NoFilter(disk, env, repo_root, changed) ==
    LET joined == [i \in 1..Len(changed) |-> Join(repo_root, changed[i])]
        go_files == SelectSeq(joined, LAMBDA f : Exists(disk, f))
    IN  IF Len(go_files) = 0 THEN Outcome("ok", <<>>, <<>>)
        ELSE Run(env, "gofmt", "-w", go_files)

Go_fmt(disk, env, repo_root, changed) ==
    LET named == SelectSeq(changed, IsGoFile)
        joined == [i \in 1..Len(named) |-> Join(repo_root, named[i])]
        go_files == SelectSeq(joined, LAMBDA f : Exists(disk, f))
    IN  IF Len(go_files) = 0 THEN Outcome("ok", <<>>, <<>>)
        ELSE Run(env, "gofmt", "-w", go_files)

----------------------------------------------------------------------------
(* backend/js.rs *)

PNPM == [name |-> "pnpm", lock_files |-> <<pnpm_workspace_yaml, pnpm_lock_yaml>>,
         cmd |-> "pnpm"]

YARN == [name |-> "yarn", lock_files |-> <<yarn_lock>>, cmd |-> "yarn"]

\* the probe with the two markers in the other order
Orchestrator_detect_TurboFirst(disk, repo_root) ==
    IF Exists(disk, Join(repo_root, <<turbo_json>>)) THEN "Turbo"
    ELSE IF Exists(disk, Join(repo_root, <<nx_json>>)) THEN "Nx"
    ELSE "Plain"

Orchestrator_detect(disk, repo_root) ==
    IF Exists(disk, Join(repo_root, <<nx_json>>)) THEN "Nx"
    ELSE IF Exists(disk, Join(repo_root, <<turbo_json>>)) THEN "Turbo"
    ELSE "Plain"

Orchestrator_name(orch, default) ==
    IF orch = "Nx" THEN "nx" ELSE IF orch = "Turbo" THEN "turbo" ELSE default

run_script(js, env, orch, target) ==
    IF orch = "Nx" THEN Run(env, "nx", "affected", <<target>>)
    ELSE IF orch = "Turbo" THEN Run(env, "turbo", "run", <<target>>)
    ELSE Run(env, js.cmd, target, <<>>)

\* JsBackend::orch: the line it writes to the error stream
UsingOrchestrator(js, orch) ==
    <<"kit: using orchestrator", Orchestrator_name(orch, js.name)>>

Js_detect(js, disk, dir) ==
    \E i \in 1..Len(js.lock_files) : Exists(disk, Join(dir, <<js.lock_files[i]>>))

Js_affected_targets(repo_root, changed) == <<Target(<<".">>, repo_root)>>

Js_resolve_target(repo_root, dir) ==
    LET rel == Replace(ToStringLossy(StripPrefixOr(dir, repo_root)), "\\", "/")
    IN  Target(IF Len(rel) = 0 THEN <<".">> ELSE <<".", "/">> \o rel, dir)

Js_build(js, disk, env, repo_root, ts) ==
    IF Len(ts) = 0 THEN Outcome("ok", <<>>, <<>>)
    ELSE LET orch == Orchestrator_detect(disk, repo_root)
         IN  Warn(UsingOrchestrator(js, orch),
                  AndThen(Run(env, js.cmd, "install", <<>>),
                          run_script(js, env, orch, "build")))

Js_test(js, disk, env, repo_root, ts) ==
    IF Len(ts) = 0 THEN Outcome("ok", <<>>, <<>>)
    ELSE LET orch == Orchestrator_detect(disk, repo_root)
         IN  Warn(UsingOrchestrator(js, orch), run_script(js, env, orch, "test"))

Js_lint(js, disk, env, repo_root, ts) ==
    IF Len(ts) = 0 THEN Outcome("ok", <<>>, <<>>)
    ELSE LET orch == Orchestrator_detect(disk, repo_root)
         IN  Warn(UsingOrchestrator(js, orch), run_script(js, env, orch, "lint"))

Js_fmt(js, disk, env, repo_root, changed) ==
    LET orch == Orchestrator_detect(disk, repo_root)
    IN  Warn(UsingOrchestrator(js, orch),
             IF orch = "Nx" THEN Run(env, "nx", "format:write", <<>>)
             ELSE run_script(js, env, orch, "format"))

----------------------------------------------------------------------------
(* backend/mod.rs: the Backend trait and the registry *)

JsOf(b) == IF b = "pnpm" THEN PNPM ELSE YARN

name(b) == b

detect(b, disk, dir) ==
    CASE b = "bazel" -> Bazel_detect(disk, dir)
      [] b = "go" -> Go_detect(disk, dir)
      [] OTHER -> Js_detect(JsOf(b), disk, dir)

affected_targets(b, disk, env, q, repo_root, changed) ==
    CASE b = "bazel" -> Bazel_affected_targets(disk, env, q, repo_root, changed)
      [] b = "go" -> [targets |-> Go_affected_targets(disk, repo_root, changed),
                      stderr |-> <<>>, invoked |-> <<>>]
      [] OTHER -> [targets |-> Js_affected_targets(repo_root, changed),
                   stderr |-> <<>>, invoked |-> <<>>]

resolve_target(b, repo_root, dir) ==
    CASE b = "bazel" -> Bazel_resolve_target(repo_root, dir)
      [] b = "go" -> Go_resolve_target(repo_root, dir)
      [] OTHER -> Js_resolve_target(repo_root, dir)

build(b, disk, env, repo_root, ts) ==
    CASE b = "bazel" -> Bazel_build(env, repo_root, ts)
      [] b = "go" -> Go_build(env, repo_root, ts)
      [] OTHER -> Js_build(JsOf(b), disk, env, repo_root, ts)

test(b, disk, env, repo_root, ts) ==
    CASE b = "bazel" -> Bazel_test(env, repo_root, ts)
      [] b = "go" -> Go_test(env, repo_root, ts)
      [] OTHER -> Js_test(JsOf(b), disk, env, repo_root, ts)

lint(b, disk, env, repo_root, ts) ==
    CASE b = "bazel" -> Bazel_lint(env, repo_root, ts)
      [] b = "go" -> Go_lint(env, repo_root, ts)
      [] OTHER -> Js_lint(JsOf(b), disk, env, repo_root, ts)

fmt(b, disk, env, repo_root, changed) ==
    CASE b = "bazel" -> Bazel_fmt(disk, env, repo_root, changed)
      [] b = "go" -> Go_fmt(disk, env, repo_root, changed)
      [] OTHER -> Js_fmt(JsOf(b), disk, env, repo_root, changed)

all_backends == <<"bazel", "go">>

----------------------------------------------------------------------------
(* main.rs *)

\* the last backend whose detect holds
detect_backend_LastMatch(backends, disk, repo_root) ==
    IF \E i \in 1..Len(backends) : detect(backends[i], disk, repo_root)
    THEN backends[CHOOSE i \in 1..Len(backends) :
            /\ detect(backends[i], disk, repo_root)
            /\ \A j \in (i + 1)..Len(backends) :
                  ~detect(backends[j], disk, repo_root)]
    ELSE "none"

\* find_map over the registry: the first backend whose detect holds
detect_backend(backends, disk, repo_root) ==
    IF \E i \in 1..Len(backends) : detect(backends[i], disk, repo_root)
    THEN backends[CHOOSE i \in 1..Len(backends) :
            /\ detect(backends[i], disk, repo_root)
            /\ \A j \in 1..(i - 1) : ~detect(backends[j], disk, repo_root)]
    ELSE "none"

UnsupportedError(backends) ==
    <<"kit does not support the build system; supported backends:">>
        \o [i \in 1..Len(backends) |-> name(backends[i])]

OutsideError == <<"path is outside repository root">>

\* the check both argument loops make on cwd.join(d)
IsOutside(repo_root, dir, d) == ~HasPrefix(Join(dir, d), repo_root)

\* resolve_targets with explicit directories: Err at the first argument
\* outside the root, else one target per argument
resolve_targets(b, disk, repo_root, dir, dirs) ==
    IF \E i \in 1..Len(dirs) : IsOutside(repo_root, dir, dirs[i])
    THEN [ok |-> FALSE, targets |-> <<>>]
    ELSE [ok |-> TRUE,
          targets |-> [i \in 1..Len(dirs) |->
              LET full == Join(dir, dirs[i])
              IN  resolve_target(b, repo_root,
                      IF IsFile(disk, full) THEN Parent(full) ELSE full)]]

resolve_file_args(repo_root, dir, dirs) ==
    IF \E i \in 1..Len(dirs) : IsOutside(repo_root, dir, dirs[i])
    THEN [ok |-> FALSE, files |-> <<>>]
    ELSE [ok |-> TRUE,
          files |-> [i \in 1..Len(dirs) |->
              StripPrefixOr(Join(dir, dirs[i]), repo_root)]]

TargetCommands == {"build", "test", "lint"}

\* main, lines 70-86, a backend matches
SelectBackend ==
    /\ pc = "start"
    /\ detect_backend(all_backends, fs, RepoRoot) # "none"
    /\ backend' = detect_backend(all_backends, fs, RepoRoot)
    /\ stderr' = Append(stderr, <<"kit: detected backend", backend'>>)
    /\ pc' = "selected"
    /\ UNCHANGED <<fs, cwd, cli, changed_files, query, tools, targets,
                   invoked, ops, outcome, stdout, dedup_in>>

\* main, lines 72-84, no backend matches
Unsupported ==
    /\ pc = "start"
    /\ detect_backend(all_backends, fs, RepoRoot) = "none"
    /\ stderr' = Append(stderr, UnsupportedError(all_backends))
    /\ outcome' = "err"
    /\ pc' = "done"
    /\ UNCHANGED <<fs, cwd, cli, changed_files, query, tools, backend,
                   targets, invoked, ops, stdout, dedup_in>>

\* resolve_targets, dirs empty
ResolveChanged ==
    /\ pc = "selected"
    /\ cli.command \in TargetCommands
    /\ Len(cli.dirs) = 0
    /\ LET r == affected_targets(backend, fs, tools, query, RepoRoot,
                                 changed_files)
       IN  /\ targets' = r.targets
           /\ stderr' = stderr \o <<(<<"kit: changed files on branch">>)>>
                           \o r.stderr
           /\ invoked' = invoked \o r.invoked
    /\ pc' = "resolved"
    /\ UNCHANGED <<fs, cwd, cli, changed_files, query, tools, backend, ops,
                   outcome, stdout, dedup_in>>

\* resolve_targets, explicit directories, all inside the root
ResolveExplicit ==
    /\ pc = "selected"
    /\ cli.command \in TargetCommands
    /\ Len(cli.dirs) > 0
    /\ resolve_targets(backend, fs, RepoRoot, cwd, cli.dirs).ok
    /\ targets' = resolve_targets(backend, fs, RepoRoot, cwd, cli.dirs).targets
    /\ pc' = "resolved"
    /\ UNCHANGED <<fs, cwd, cli, changed_files, query, tools, backend, stderr,
                   invoked, ops, outcome, stdout, dedup_in>>

\* resolve_targets, explicit directories, one is found outside the root
RejectOutside ==
    /\ pc = "selected"
    /\ cli.command \in TargetCommands
    /\ Len(cli.dirs) > 0
    /\ ~resolve_targets(backend, fs, RepoRoot, cwd, cli.dirs).ok
    /\ stderr' = Append(stderr, OutsideError)
    /\ outcome' = "err"
    /\ pc' = "done"
    /\ UNCHANGED <<fs, cwd, cli, changed_files, query, tools, backend,
                   targets, invoked, ops, stdout, dedup_in>>

\* the end of a dispatched backend operation
Finish(op, o) ==
    /\ ops' = Append(ops, op)
    /\ stderr' = stderr \o o.stderr
    /\ invoked' = invoked \o o.invoked
    /\ outcome' = o.result
    /\ pc' = "done"

Build ==
    /\ pc = "resolved"
    /\ cli.command = "build"
    /\ Finish("build", build(backend, fs, tools, RepoRoot, targets))
    /\ UNCHANGED <<fs, cwd, cli, changed_files, query, tools, backend,
                   targets, stdout, dedup_in>>

Test ==
    /\ pc = "resolved"
    /\ cli.command = "test"
    /\ Finish("test", test(backend, fs, tools, RepoRoot, targets))
    /\ UNCHANGED <<fs, cwd, cli, changed_files, query, tools, backend,
                   targets, stdout, dedup_in>>

Lint ==
    /\ pc = "resolved"
    /\ cli.command = "lint"
    /\ Finish("lint", lint(backend, fs, tools, RepoRoot, targets))
    /\ UNCHANGED <<fs, cwd, cli, changed_files, query, tools, backend,
                   targets, stdout, dedup_in>>

\* Cmd::Fmt over the changed files, or over explicit arguments inside the root
Fmt ==
    /\ pc = "selected"
    /\ cli.command = "fmt"
    /\ \/ Len(cli.dirs) = 0
       \/ resolve_file_args(RepoRoot, cwd, cli.dirs).ok
    /\ LET files == IF Len(cli.dirs) = 0 THEN changed_files
                    ELSE resolve_file_args(RepoRoot, cwd, cli.dirs).files
       IN  Finish("fmt", fmt(backend, fs, tools, RepoRoot, files))
    /\ UNCHANGED <<fs, cwd, cli, changed_files, query, tools, backend,
                   targets, stdout, dedup_in>>

\* Cmd::Fmt with an explicit argument found outside the root
FmtRejectOutside ==
    /\ pc = "selected"
    /\ cli.command = "fmt"
    /\ Len(cli.dirs) > 0
    /\ ~resolve_file_args(RepoRoot, cwd, cli.dirs).ok
    /\ stderr' = Append(stderr, OutsideError)
    /\ outcome' = "err"
    /\ pc' = "done"
    /\ UNCHANGED <<fs, cwd, cli, changed_files, query, tools, backend,
                   targets, invoked, ops, stdout, dedup_in>>

\* Cmd::Detect
Detect ==
    /\ pc = "selected"
    /\ cli.command = "detect"
    /\ stdout' = Append(stdout, name(backend))
    /\ outcome' = "ok"
    /\ pc' = "done"
    /\ UNCHANGED <<fs, cwd, cli, changed_files, query, tools, backend,
                   targets, stderr, invoked, ops, dedup_in>>

----------------------------------------------------------------------------
(* Environments *)

a == <<"a">>
b == <<"b">>
c == <<"c">>
a_b == <<"a", "-", "b">>
x_txt == <<"x", ".", "t", "x", "t">>
f_go == <<"f", ".", "g", "o">>
x_ts == <<"x", ".", "t", "s">>

\* directories that exist whatever the repository holds
BaseDirs == {<<RootDir>>, Work, RepoRoot, Outside}

Under(dir, names) == {Join(dir, <<n>>) : n \in names}

\* git::changed_files: the paths of a BTreeSet<PathBuf>, in its order
ChangedSets(candidates) ==
    {SortPaths(S) : S \in {T \in SUBSET candidates : Cardinality(T) <= MaxChanged}}

SeqsUpTo(S, n) == UNION {[1..k -> S] : k \in 0..n}

Quiet ==
    /\ targets = <<>>
    /\ stderr = <<>>
    /\ invoked = <<>>
    /\ ops = <<>>
    /\ stdout = <<>>
    /\ outcome = "running"
    /\ dedup_in = <<>>

NoQuery == [success |-> TRUE, utf8 |-> TRUE, lines |-> <<>>]

AllTools == {"bazel", "bazelisk", "buildifier", "go", "golangci-lint", "gofmt",
             "pnpm", "yarn", "nx", "turbo"}

\* labels `bazel query --output=label` prints
QueryLabels ==
    {<<"/", "/", "a", ":", "x">>, <<"/", "/", "b", ":", "y">>,
     <<"/", "/", ":", "x">>}

BazelMarkers ==
    {RepoRoot \o <<BUILD>>, RepoRoot \o <<a, BUILD>>,
     RepoRoot \o <<a, c, BUILD_bazel>>, RepoRoot \o <<b, BUILD>>}

BazelChanged == {<<x_txt>>, <<a, BUILD>>, <<a, c, x_txt>>, <<b, x_txt>>}

\* a graph-query repository, its backend selected
InitBazel ==
    /\ pc = "selected"
    /\ backend = "bazel"
    /\ cwd = RepoRoot
    /\ cli \in [command : TargetCommands, dirs : {<<>>}]
    /\ \E markers \in SUBSET BazelMarkers :
          fs = [dirs |-> BaseDirs \cup {RepoRoot \o <<a>>, RepoRoot \o <<a, c>>,
                                        RepoRoot \o <<b>>},
                files |-> {RepoRoot \o <<WORKSPACE>>, Work \o <<BUILD>>}
                             \cup markers]
    /\ changed_files \in ChangedSets(BazelChanged)
    /\ \E path \in {{}, {"bazel"}, {"bazel", "bazelisk"}} :
          /\ tools = [path |-> path, fails |-> {}, engine |-> {}]
          /\ IF path = {} THEN query = NoQuery
             ELSE \/ query \in [success : BOOLEAN, utf8 : {TRUE},
                                lines : SeqsUpTo(QueryLabels, MaxLines)]
                  \/ query \in [success : BOOLEAN, utf8 : {FALSE},
                                lines : {<<>>}]
    /\ Quiet

GoDirs == {RepoRoot \o <<a>>, RepoRoot \o <<a_b>>, RepoRoot \o <<b>>}

GoChanged ==
    {<<f_go>>, <<go_mod>>, <<go_sum>>, <<a, f_go>>, <<a_b, f_go>>,
     <<b, go_sum>>, <<b, go_work>>, <<b, f_go>>, <<a, x_txt>>}

\* a Go repository, its backend selected
InitGo ==
    /\ pc = "selected"
    /\ backend = "go"
    /\ cwd = RepoRoot
    /\ cli \in [command : TargetCommands, dirs : {<<>>}]
    /\ \E present \in SUBSET GoDirs :
          fs = [dirs |-> BaseDirs \cup present,
                files |-> {RepoRoot \o <<go_mod>>}]
    /\ changed_files \in ChangedSets(GoChanged)
    /\ tools = [path |-> AllTools, fails |-> {}, engine |-> {}]
    /\ query = NoQuery
    /\ Quiet

\* a JavaScript workspace, its backend selected
InitJs ==
    /\ pc = "selected"
    /\ backend \in {"pnpm", "yarn"}
    /\ cwd = RepoRoot
    /\ cli \in [command : TargetCommands, dirs : {<<>>}]
    /\ \E orchestrators \in SUBSET {nx_json, turbo_json} :
          fs = [dirs |-> BaseDirs \cup {RepoRoot \o <<a>>},
                files |-> Under(RepoRoot, orchestrators \cup {JsOf(backend).lock_files[1]})]
    /\ changed_files \in ChangedSets({<<x_ts>>, <<a, x_ts>>})
    /\ tools = [path |-> AllTools, fails |-> {}, engine |-> {}]
    /\ query = NoQuery
    /\ Quiet

\* a backend called on a changed-file set, as the backends' tests call it
InitBackend == InitBazel \/ InitGo \/ InitJs

NextBackend == ResolveChanged \/ Build \/ Test \/ Lint

SpecBackend == InitBackend /\ [][NextBackend]_vars

----------------------------------------------------------------------------
(* deduplicate_to_packages called on a target list, and on its own result *)

DedupLabels ==
    {<<"/", "/", "a", ":", "x">>, <<"/", "/", "a", ":", "y">>,
     <<"/", "/", "a", "/", "c", ":", "x">>, <<"/", "/", "b", ":", "x">>,
     <<"/", "/", ":", "x">>}

InitDedup ==
    /\ pc = "dedup"
    /\ backend = "bazel"
    /\ cwd = RepoRoot
    /\ cli = [command |-> "build", dirs |-> <<>>]
    /\ fs = [dirs |-> BaseDirs, files |-> {}]
    /\ changed_files = <<>>
    /\ tools = [path |-> AllTools, fails |-> {}, engine |-> {}]
    /\ query = NoQuery
    /\ targets = <<>>
    /\ stderr = <<>>
    /\ invoked = <<>>
    /\ ops = <<>>
    /\ stdout = <<>>
    /\ outcome = "running"
    /\ \E labels \in SeqsUpTo(DedupLabels, MaxTargets) :
          dedup_in = [i \in 1..Len(labels) |->
                         Target(labels[i], label_to_dir(RepoRoot, labels[i]))]

Deduplicate ==
    /\ pc = "dedup"
    /\ targets' = deduplicate_to_packages(RepoRoot, dedup_in)
    /\ pc' = "deduped"
    /\ UNCHANGED <<fs, cwd, cli, changed_files, query, tools, backend, stderr,
                   invoked, ops, outcome, stdout, dedup_in>>

DeduplicateAgain ==
    /\ pc = "deduped"
    /\ targets' = deduplicate_to_packages(RepoRoot, targets)
    /\ pc' = "deduped twice"
    /\ UNCHANGED <<fs, cwd, cli, changed_files, query, tools, backend, stderr,
                   invoked, ops, outcome, stdout, dedup_in>>

NextDedup == Deduplicate \/ DeduplicateAgain

SpecDedup == InitDedup /\ [][NextDedup]_vars

----------------------------------------------------------------------------
(* A run of kit *)

o == <<"o">>

\* directory arguments: inside, leaving the root through '..', absolute
\* outside, and a file
DirArgs == {<<b>>, <<ParentDir, o>>, Outside, <<a, f_go>>}

RootMarkers == {WORKSPACE, go_mod, pnpm_lock_yaml, yarn_lock}

Init ==
    /\ pc = "start"
    /\ backend = "none"
    /\ cwd \in {RepoRoot, RepoRoot \o <<a>>}
    /\ \/ cli \in [command : TargetCommands \cup {"fmt"},
                   dirs : SeqsUpTo(DirArgs, MaxArgs)]
       \/ cli = [command |-> "detect", dirs |-> <<>>]
    /\ \E markers \in SUBSET RootMarkers :
          fs = [dirs |-> BaseDirs \cup {RepoRoot \o <<a>>, RepoRoot \o <<b>>},
                files |-> Under(RepoRoot, markers)
                             \cup {RepoRoot \o <<a, BUILD>>,
                                   RepoRoot \o <<a, f_go>>}]
    /\ changed_files \in ChangedSets({<<a, f_go>>})
    /\ query = [success |-> TRUE, utf8 |-> TRUE,
                lines |-> <<(<<"/", "/", "a", ":", "x">>)>>]
    /\ \E fails \in {{}, {<<"bazelisk", "build">>, <<"go", "build">>}} :
          tools = [path |-> AllTools, fails |-> fails, engine |-> {}]
    /\ Quiet

Next ==
    \/ SelectBackend
    \/ Unsupported
    \/ ResolveChanged
    \/ ResolveExplicit
    \/ RejectOutside
    \/ Build
    \/ Test
    \/ Lint
    \/ Fmt
    \/ FmtRejectOutside
    \/ Detect

Spec == Init /\ [][Next]_vars

----------------------------------------------------------------------------
(* Properties of the graph-query backend's affected_targets *)

Resolved == pc \in {"resolved", "done"}

\* the query mechanism failed: the tool cannot be started, the query ended
\* with an error exit status, or its output is not valid UTF-8
QueryFailed ==
    \/ bazel_cmd(tools) \notin tools.path
    \/ ~query.success
    \/ ~query.utf8

HasMarker(d) ==
    d \o <<BUILD>> \in fs.files \/ d \o <<BUILD_bazel>> \in fs.files

\* the directories from the one containing the file up to the repository root
Chain(file) ==
    {d \in {SubSeq(RepoRoot \o file, 1, n) : n \in 1..(Len(RepoRoot \o file) - 1)} :
        HasPrefix(d, RepoRoot)}

\* the nearest directory of the chain that holds BUILD or BUILD.bazel
Owners(file) ==
    {d \in Chain(file) :
        /\ HasMarker(d)
        /\ \A e \in Chain(file) : HasMarker(e) => Len(e) <= Len(d)}

FallbackDirs == UNION {Owners(changed_files[i]) : i \in 1..Len(changed_files)}

\* C1: on a non-empty changed-file set every failure of the query (tool not
\* startable, error exit status, malformed output) leads to the
\* directory-ancestor fallback with its warning, never to a query result.
C1_FailedQueryFallsBack ==
    (Resolved /\ backend = "bazel" /\ Len(changed_files) > 0 /\ QueryFailed)
        => /\ QueryFailedWarning \in Range(stderr)
           /\ Range(Dirs(targets)) = FallbackDirs

\* all changed files belong to package P, and so does every label of a
\* query that succeeded
MapsInto(P) ==
    /\ \A i \in 1..Len(changed_files) : Owners(changed_files[i]) = {P}
    /\ ~QueryFailed =>
          /\ Len(query.lines) > 0
          /\ \A i \in 1..Len(query.lines) :
                label_to_dir(RepoRoot, query.lines[i]) = P

\* C2: when all changed files map into one package P the result is the one
\* target of P, by the query when it succeeded and by the fallback (with its
\* warning) when it failed, and it is never empty.
C2_OnePackageResult ==
    \A P \in fs.dirs :
        (Resolved /\ backend = "bazel" /\ Len(changed_files) > 0 /\ MapsInto(P))
            => /\ Dirs(targets) = <<P>>
               /\ QueryFailed <=> QueryFailedWarning \in Range(stderr)

\* C4: the fallback result is exactly the nearest owning packages of the
\* changed files, one target each, none above the repository root.
C4_FallbackIsNearestPackages ==
    (Resolved /\ backend = "bazel" /\ QueryFailedWarning \in Range(stderr))
        => /\ Range(Dirs(targets)) = FallbackDirs
           /\ Len(targets) = Cardinality(FallbackDirs)
           /\ \A i \in 1..Len(targets) :
                 targets[i] = Bazel_resolve_target(RepoRoot, targets[i].dir)

\* [a/BUILD, b/x.txt] with markers at a/ and b/ fell back to packages a and b
C4_Witness ==
    /\ pc = "resolved"
    /\ QueryFailedWarning \in Range(stderr)
    /\ changed_files = <<(<<a, BUILD>>), <<b, x_txt>>>>
    /\ HasMarker(RepoRoot \o <<a>>) /\ HasMarker(RepoRoot \o <<b>>)
    /\ Dirs(targets) = <<RepoRoot \o <<a>>, RepoRoot \o <<b>>>>

----------------------------------------------------------------------------
(* Empty changed-file sets *)

JsBackends == {"pnpm", "yarn"}

\* C3 as stated: for every backend an empty changed-file set gives an empty
\* target list, and build, test and lint on it run no tool and succeed.
C3_EmptyChangeIsNoOp_AllBackends ==
    (Resolved /\ Len(changed_files) = 0)
        => /\ targets = <<>>
           /\ pc = "done" => invoked = <<>> /\ outcome = "ok"

\* C3: for the graph-query and the Go backend an empty changed-file set gives
\* an empty target list, and build, test and lint on it run no external tool
\* and return success; the workspace-task backend returns its single
\* whole-repository target also for an empty changed-file set.
C3_EmptyChangeIsNoOp ==
    /\ (Resolved /\ Len(changed_files) = 0 /\ backend \notin JsBackends)
          => /\ targets = <<>>
             /\ invoked = <<>>
             /\ pc = "done" => outcome = "ok"
    /\ (Resolved /\ backend \in JsBackends)
          => targets = <<Target(<<".">>, RepoRoot)>>

C3_Witness ==
    /\ pc = "done"
    /\ backend = "go"
    /\ Len(changed_files) = 0
    /\ ops = <<"build">>
    /\ outcome = "ok"

----------------------------------------------------------------------------
(* deduplicate_to_packages *)

\* p is the package prefix of label l: the text before its first ':'
IsPackagePrefix(p, l) ==
    /\ StartsWith(l, p)
    /\ ":" \notin Range(p)
    /\ Len(p) = Len(l) \/ l[Len(p) + 1] = ":"

PackagePrefixes(ts) ==
    UNION {{p \in {SubSeq(ts[i].label, 1, n) : n \in 0..Len(ts[i].label)} :
               IsPackagePrefix(p, ts[i].label)} : i \in 1..Len(ts)}

AsTargets(labels) ==
    [i \in 1..Len(labels) |-> Target(labels[i], label_to_dir(RepoRoot, labels[i]))]

\* C5: the output holds one '<package>:all' target per distinct package
\* prefix of the input, in ascending order; every list with the same labels
\* (permuted, duplicated) gives the same output; the output is a fixed point.
C5_DedupIsCanonical ==
    /\ pc = "deduped" =>
          /\ Range(Labels(targets)) =
                {p \o <<":", "a", "l", "l">> : p \in PackagePrefixes(dedup_in)}
          /\ \A i \in 1..(Len(targets) - 1) :
                StrLess(targets[i].label, targets[i + 1].label)
          /\ \A other \in SeqsUpTo(DedupLabels, MaxTargets) :
                Range(other) = Range(Labels(dedup_in))
                    => deduplicate_to_packages(RepoRoot, AsTargets(other)) = targets
    /\ pc = "deduped twice" =>
          targets = deduplicate_to_packages(RepoRoot, dedup_in)

\* two labels of package a after one of package b: collapsed and reordered
C5_Witness ==
    /\ pc = "deduped twice"
    /\ Labels(dedup_in) = <<(<<"/", "/", "b", ":", "x">>),
                            <<"/", "/", "a", ":", "y">>,
                            <<"/", "/", "a", ":", "x">>>>
    /\ Labels(targets) = <<(<<"/", "/", "a", ":", "a", "l", "l">>),
                           <<"/", "/", "b", ":", "a", "l", "l">>>>

----------------------------------------------------------------------------
(* Properties of the Go backend's affected_targets *)

\* C6: every target of the Go backend's affected_targets has a dir that
\* exists on disk, whatever kind of deleted file the changed set holds.
C6_GoTargetsExist ==
    (Resolved /\ backend = "go")
        => \A i \in 1..Len(targets) : targets[i].dir \in fs.dirs

\* C7 as stated: no duplicates, and the labels ascend alphabetically.
C7_GoTargetsSortedByLabel ==
    (Resolved /\ backend = "go")
        => \A i \in 1..(Len(targets) - 1) :
              StrLess(targets[i].label, targets[i + 1].label)

\* C7: one target per distinct affected directory, no duplicates, in the
\* ascending order of the directories' paths, compared component by
\* component.
C7_GoTargetsSortedByDir ==
    (Resolved /\ backend = "go")
        => /\ \A i \in 1..(Len(targets) - 1) :
                 PathLess(targets[i].dir, targets[i + 1].dir)
           /\ Range(Dirs(targets)) =
                 UNION {GoPackagesOf(fs, RepoRoot, changed_files[i]) :
                           i \in 1..Len(changed_files)}

C7_Witness ==
    /\ pc = "resolved"
    /\ backend = "go"
    /\ Labels(targets) = <<(<<".", "/", "a", "/", ".", ".", ".">>),
                           <<".", "/", "b", "/", ".", ".", ".">>>>
    /\ Len(changed_files) = 2

----------------------------------------------------------------------------
(* Properties of a run *)

\* a path with its '..' components taken against the directories before them
RECURSIVE Normalize(_)
Normalize(p) ==
    IF Len(p) = 0 THEN <<>>
    ELSE LET front == Normalize(Parent(p))
         IN  IF p[Len(p)] = ParentDir
             THEN IF Len(front) > 1 THEN Parent(front) ELSE front
             ELSE Append(front, p[Len(p)])

\* the argument names a location that is not the root or below it
DenotesOutside(d) == ~HasPrefix(Normalize(Join(cwd, d)), RepoRoot)

\* C8: build, test or lint with an explicit argument that denotes a location
\* outside the repository root ends with a fatal error and no backend
\* operation is invoked.
C8_OutsideArgumentIsFatal ==
    (/\ backend # "none"
     /\ cli.command \in TargetCommands
     /\ \E i \in 1..Len(cli.dirs) : DenotesOutside(cli.dirs[i]))
        => /\ ops = <<>>
           /\ invoked = <<>>
           /\ pc = "done" => outcome = "err" /\ OutsideError \in Range(stderr)

AnyDetects == \E i \in 1..Len(all_backends) : detect(all_backends[i], fs, RepoRoot)

\* C9: the selected backend is the first of the registry whose detect holds
\* at the root (graph-query before Go when both markers are there); when none
\* holds the run fails with the error that lists the supported backends and
\* neither resolves targets nor invokes a backend operation.
C9_FirstMatchOrUnsupported ==
    /\ backend # "none" =>
          \E i \in 1..Len(all_backends) :
              /\ all_backends[i] = backend
              /\ detect(backend, fs, RepoRoot)
              /\ \A j \in 1..(i - 1) : ~detect(all_backends[j], fs, RepoRoot)
    /\ (pc # "start" /\ AnyDetects) => backend # "none"
    /\ (pc # "start" /\ RepoRoot \o <<WORKSPACE>> \in fs.files
            /\ RepoRoot \o <<go_mod>> \in fs.files) => backend = "bazel"
    /\ (pc # "start" /\ ~AnyDetects) =>
          /\ pc = "done"
          /\ outcome = "err"
          /\ backend = "none"
          /\ targets = <<>> /\ ops = <<>> /\ invoked = <<>> /\ stdout = <<>>
          /\ \E m \in Range(stderr) :
                \A i \in 1..Len(all_backends) : name(all_backends[i]) \in Range(m)

\* a root with WORKSPACE and go.mod ran its operation on the graph-query backend
C9_Witness ==
    /\ pc = "done"
    /\ RepoRoot \o <<WORKSPACE>> \in fs.files
    /\ RepoRoot \o <<go_mod>> \in fs.files
    /\ backend = "bazel"
    /\ Len(ops) = 1

HasLockfile ==
    \E f \in {pnpm_lock_yaml, pnpm_workspace_yaml, yarn_lock} :
        RepoRoot \o <<f>> \in fs.files

\* C10: a root with a package-manager lockfile and no graph-query or Go
\* marker is selected by the workspace-task backend, not rejected.
C10_LockfileSelectsWorkspaceTask ==
    (/\ pc # "start"
     /\ HasLockfile
     /\ ~Bazel_detect(fs, RepoRoot)
     /\ ~Go_detect(fs, RepoRoot))
        => /\ backend \in JsBackends
           /\ UnsupportedError(all_backends) \notin Range(stderr)

----------------------------------------------------------------------------
(* The backends' operations under missing and failing tools *)

d_bzl == <<"d", ".", "b", "z", "l">>

Commands == TargetCommands \cup {"fmt"}

\* a graph-query repository: package a, a deleted b/d.bzl
InitToolsBazel ==
    /\ backend = "bazel"
    /\ fs = [dirs |-> BaseDirs \cup {RepoRoot \o <<a>>, RepoRoot \o <<b>>},
             files |-> {RepoRoot \o <<WORKSPACE>>, RepoRoot \o <<a, BUILD>>,
                        RepoRoot \o <<a, x_txt>>}]
    /\ changed_files \in ChangedSets({<<WORKSPACE>>, <<a, BUILD>>, <<a, x_txt>>,
                                      <<b, d_bzl>>})
    /\ query = [success |-> TRUE, utf8 |-> TRUE,
                lines |-> <<(<<"/", "/", "a", ":", "x">>)>>]
    /\ \E optional \in SUBSET {"buildifier"},
          fails \in SUBSET {<<"bazel", "run //:buildifier">>,
                            <<"buildifier", "-lint=warn">>,
                            <<"buildifier", "-mode=fix">>},
          engine \in SUBSET {"//:buildifier"} :
          tools = [path |-> {"bazel"} \cup optional, fails |-> fails,
                   engine |-> engine]

\* a Go repository: package a, a removed directory b
InitToolsGo ==
    /\ backend = "go"
    /\ fs = [dirs |-> BaseDirs \cup {RepoRoot \o <<a>>},
             files |-> {RepoRoot \o <<go_mod>>, RepoRoot \o <<a, f_go>>,
                        RepoRoot \o <<a, x_txt>>}]
    /\ changed_files \in ChangedSets({<<go_mod>>, <<a, f_go>>, <<a, x_txt>>,
                                      <<b, f_go>>})
    /\ query = NoQuery
    /\ \E missing \in SUBSET {"golangci-lint", "gofmt"},
          fails \in SUBSET {<<"golangci-lint", "run">>, <<"gofmt", "-w">>} :
          tools = [path |-> AllTools \ missing, fails |-> fails, engine |-> {}]

\* a JavaScript workspace with or without orchestrator markers
InitToolsJs ==
    /\ backend \in JsBackends
    /\ \E orchestrators \in SUBSET {nx_json, turbo_json} :
          fs = [dirs |-> BaseDirs \cup {RepoRoot \o <<a>>},
                files |-> Under(RepoRoot, orchestrators
                                   \cup {JsOf(backend).lock_files[1], x_ts})]
    /\ changed_files \in ChangedSets({<<x_ts>>, <<a, x_ts>>})
    /\ query = NoQuery
    /\ \E fails \in SUBSET {<<JsOf(backend).cmd, "install">>, <<"nx", "affected">>} :
          tools = [path |-> AllTools, fails |-> fails, engine |-> {}]

InitTools ==
    /\ pc = "selected"
    /\ cwd = RepoRoot
    /\ cli \in [command : Commands, dirs : {<<>>}]
    /\ InitToolsBazel \/ InitToolsGo \/ InitToolsJs
    /\ Quiet

NextTools == ResolveChanged \/ Build \/ Test \/ Lint \/ Fmt

SpecTools == InitTools /\ [][NextTools]_vars

Linter(bk) == IF bk = "bazel" THEN "buildifier" ELSE "golangci-lint"
Formatter(bk) == IF bk = "bazel" THEN "buildifier" ELSE "gofmt"

\* fmt has a file to hand to the formatter
HasRelevantFile ==
    \E i \in 1..Len(changed_files) :
        /\ IF backend = "bazel" THEN IsBuildFile(changed_files[i])
           ELSE IsGoFile(changed_files[i])
        /\ Exists(fs, Join(RepoRoot, changed_files[i]))

SkipWarnings ==
    {<<"kit: buildifier not found, skipping lint">>,
     <<"kit: buildifier not found, skipping format">>}

RanTool(cmd) == \E i \in 1..Len(invoked) : invoked[i].cmd = cmd

Skipped(tool) ==
    /\ outcome = "ok"
    /\ ~RanTool(tool)
    /\ \E m \in Range(stderr) : m \in SkipWarnings

\* C11: when the optional linter or formatter is not on the path, lint and
\* fmt of the graph-query and the Go backend skip the step with a logged
\* warning and return success.
C11_MissingOptionalToolIsSkipped ==
    /\ (pc = "done" /\ backend \in {"bazel", "go"} /\ ops = <<"lint">>
            /\ Len(targets) > 0 /\ Linter(backend) \notin tools.path)
          => Skipped(Linter(backend))
    /\ (pc = "done" /\ backend \in {"bazel", "go"} /\ ops = <<"fmt">>
            /\ HasRelevantFile /\ Formatter(backend) \notin tools.path)
          => Skipped(Formatter(backend))

ThroughEngine(i) ==
    invoked[i].cmd = "bazel" /\ invoked[i].sub = "run //:buildifier"

Direct(i) == invoked[i].cmd = "buildifier" /\ invoked[i].sub = "-lint=warn"

\* C12: graph-query lint of a non-empty target list (buildifier installed)
\* runs the linter through the engine first; the direct invocation happens
\* only when //:buildifier is not defined, so a failure reported by the
\* engine's run is the result of lint.
C12_DirectLintOnlyWithoutTarget ==
    (pc = "done" /\ backend = "bazel" /\ ops = <<"lint">> /\ Len(targets) > 0
        /\ "buildifier" \in tools.path)
        => /\ \E i \in 1..Len(invoked) :
                 ThroughEngine(i) /\ \A j \in 1..(i - 1) : ~Direct(j)
           /\ (\E i \in 1..Len(invoked) : Direct(i))
                 => "//:buildifier" \notin tools.engine
           /\ ("//:buildifier" \in tools.engine
                  /\ <<"bazel", "run //:buildifier">> \in tools.fails)
                 => outcome = "err"

----------------------------------------------------------------------------
(* Task dispatch of the workspace-task backend *)

HasNx == RepoRoot \o <<nx_json>> \in fs.files
HasTurbo == RepoRoot \o <<turbo_json>> \in fs.files

\* the invocation that runs a named task, by the markers at the root
TaskInvocation(task) ==
    IF HasNx THEN Invocation("nx", "affected", <<task>>)
    ELSE IF HasTurbo THEN Invocation("turbo", "run", <<task>>)
    ELSE Invocation(JsOf(backend).cmd, task, <<>>)

InstallInvocation == Invocation(JsOf(backend).cmd, "install", <<>>)

\* C13: build, test and lint of the workspace-task backend run the named
\* task through nx when nx.json is at the root, else through turbo when
\* turbo.json is, else as the package manager's script; the invocations are
\* fixed by the markers and the task alone, not by the changed files.
C13_TaskRunsThroughOrchestrator ==
    (pc = "done" /\ backend \in JsBackends /\ Len(ops) = 1
        /\ ops[1] \in TargetCommands)
        => /\ ops[1] \in {"test", "lint"} => invoked = <<TaskInvocation(ops[1])>>
           /\ ops[1] = "build" =>
                 invoked = IF <<JsOf(backend).cmd, "install">> \in tools.fails
                           THEN <<InstallInvocation>>
                           ELSE <<InstallInvocation, TaskInvocation("build")>>
           /\ (HasNx \/ HasTurbo) =>
                 \A i \in 1..Len(invoked) :
                    invoked[i].cmd = JsOf(backend).cmd => invoked[i].sub = "install"

\* both markers at the root: test ran as `nx affected --target=test`
C13_Witness ==
    /\ pc = "done"
    /\ backend = "pnpm"
    /\ HasNx /\ HasTurbo
    /\ ops = <<"test">>
    /\ Len(changed_files) > 0
    /\ invoked = <<Invocation("nx", "affected", <<"test">>)>>

----------------------------------------------------------------------------
(* resolve_target on explicit directories of the repository *)

\* the root itself, directories inside it, and a file
InsideArgs == {RepoRoot, <<a>>, <<a, c>>, <<a_b>>, <<b>>, <<a, f_go>>}

InitResolve ==
    /\ pc = "selected"
    /\ backend \in {"bazel", "go"} \cup JsBackends
    /\ cwd = RepoRoot
    /\ cli \in [command : {"build"},
                dirs : SeqsUpTo(InsideArgs, MaxArgs) \ {<<>>}]
    /\ fs = [dirs |-> BaseDirs \cup {RepoRoot \o <<a>>, RepoRoot \o <<a, c>>,
                                     RepoRoot \o <<a_b>>, RepoRoot \o <<b>>},
             files |-> {RepoRoot \o <<a, f_go>>}]
    /\ changed_files = <<>>
    /\ query = NoQuery
    /\ tools = [path |-> AllTools, fails |-> {}, engine |-> {}]
    /\ Quiet

NextResolve == ResolveExplicit

SpecResolve == InitResolve /\ [][NextResolve]_vars

RECURSIVE TotalLen(_)
TotalLen(p) == IF Len(p) = 0 THEN 0 ELSE Len(p[1]) + TotalLen(Tail(p))

\* s spells the relative path rel with '/' between its components
Spells(s, rel) ==
    /\ SplitSlash(s) = rel
    /\ Len(s) = TotalLen(rel) + Len(rel) - 1

Everything(bk) ==
    CASE bk = "bazel" -> <<"/", "/", ".", ".", ".", ":", "a", "l", "l">>
      [] bk = "go" -> <<".", "/", ".", ".", ".">>
      [] OTHER -> <<".">>

LabelPrefix(bk) == IF bk = "bazel" THEN <<"/", "/">> ELSE <<".", "/">>

LabelSuffix(bk) ==
    CASE bk = "bazel" -> <<":", "a", "l", "l">>
      [] bk = "go" -> <<"/", ".", ".", ".">>
      [] OTHER -> <<>>

\* label is the backend's label of the root-relative path rel
WellFormed(bk, label, rel) ==
    IF Len(rel) = 0 THEN label = Everything(bk)
    ELSE /\ StartsWith(label, LabelPrefix(bk))
         /\ EndsWith(label, LabelSuffix(bk))
         /\ Spells(SubSeq(label, Len(LabelPrefix(bk)) + 1,
                          Len(label) - Len(LabelSuffix(bk))), rel)

\* the directory main hands to resolve_target for an argument
ArgDir(arg) ==
    LET full == Join(cwd, arg)
    IN  IF full \in fs.files THEN Parent(full) ELSE full

\* C14: for every backend resolve_target returns the directory it was given
\* and a non-empty label: the backend's 'everything' label at the root, else
\* the root-relative path in the backend's syntax.
C14_ResolveTargetLabels ==
    (pc = "resolved" /\ Len(cli.dirs) > 0)
        => /\ Len(targets) = Len(cli.dirs)
           /\ \A i \in 1..Len(targets) :
                 /\ targets[i].dir = ArgDir(cli.dirs[i])
                 /\ Len(targets[i].label) > 0
                 /\ WellFormed(backend, targets[i].label,
                               SubSeq(targets[i].dir, Len(RepoRoot) + 1,
                                      Len(targets[i].dir)))

C14_Witness ==
    /\ pc = "resolved"
    /\ backend = "bazel"
    /\ cli.dirs = <<RepoRoot, <<a, c>>>>
    /\ Labels(targets) = <<(<<"/", "/", ".", ".", ".", ":", "a", "l", "l">>),
                           <<"/", "/", "a", "/", "c", ":", "a", "l", "l">>>>

----------------------------------------------------------------------------
(* fmt *)

\* the changed file is one the backend's formatter is meant for
Relevant(bk, file) ==
    LET n == file[Len(file)]
    IN  IF bk = "bazel"
        THEN \/ n \in {BUILD, BUILD_bazel, WORKSPACE, WORKSPACE_bazel, MODULE_bazel}
             \/ EndsWith(n, <<".", "b", "z", "l">>)
        ELSE EndsWith(n, <<".", "g", "o">>)

RelevantPaths ==
    {RepoRoot \o changed_files[i] :
        i \in {j \in 1..Len(changed_files) : Relevant(backend, changed_files[j])}}

FormatsOnlyRelevant ==
    /\ \A i \in 1..Len(invoked) : Range(invoked[i].args) \subseteq RelevantPaths
    /\ RelevantPaths = {} => invoked = <<>> /\ outcome = "ok"

\* C15 as stated: every backend's fmt hands the formatter only relevant
\* changed files and runs no tool when none is relevant, in particular when
\* the changed-file set is empty.
C15_FmtOnlyRelevantFiles_AllBackends ==
    (pc = "done" /\ ops = <<"fmt">>)
        => /\ backend \in {"bazel", "go"} => FormatsOnlyRelevant
           /\ Len(changed_files) = 0 => invoked = <<>> /\ outcome = "ok"

\* C15: fmt of the graph-query and the Go backend hands the formatter only
\* the relevant changed files and runs no tool and succeeds when none is
\* relevant; fmt of the workspace-task backend runs the workspace formatter
\* (nx format:write, or the format task) whatever the changed files are.
C15_FmtOnlyRelevantFiles ==
    (pc = "done" /\ ops = <<"fmt">>)
        => /\ backend \in {"bazel", "go"} => FormatsOnlyRelevant
           /\ backend \in JsBackends =>
                 invoked = <<IF HasNx THEN Invocation("nx", "format:write", <<>>)
                             ELSE TaskInvocation("format")>>

\* a.go and x.txt changed: gofmt got a/f.go alone
C15_Witness ==
    /\ pc = "done"
    /\ backend = "go"
    /\ ops = <<"fmt">>
    /\ changed_files = <<(<<a, f_go>>), <<a, x_txt>>>>
    /\ invoked = <<Invocation("gofmt", "-w", <<RepoRoot \o <<a, f_go>>>>)>>

----------------------------------------------------------------------------
(* module-dependency files *)

DependencyNames == {go_mod, go_sum, go_work, go_work_sum}

DirOf(file) == SubSeq(file, 1, Len(file) - 1)

NameOf(file) == file[Len(file)]

WildcardLabel(D) ==
    IF D = <<>> THEN <<".", "/", ".", ".", ".">>
    ELSE <<".", "/">> \o ToStringLossy(D) \o <<"/", ".", ".", ".">>

TargetsFor(D) == {j \in 1..Len(targets) : targets[j].dir = RepoRoot \o D}

\* C16: each changed go.mod, go.sum, go.work or go.work.sum in directory D
\* gives exactly one target for D, labelled ./D/... (./... at the root),
\* however many of them changed; every target comes from a changed
\* dependency file or .go file, so other files give none.
C16_DependencyFilesGiveOneWildcard ==
    (Resolved /\ backend = "go")
        => /\ \A i \in 1..Len(changed_files) :
                 NameOf(changed_files[i]) \in DependencyNames
                    => /\ Cardinality(TargetsFor(DirOf(changed_files[i]))) = 1
                       /\ \A j \in TargetsFor(DirOf(changed_files[i])) :
                             targets[j].label = WildcardLabel(DirOf(changed_files[i]))
           /\ \A j \in 1..Len(targets) : \E i \in 1..Len(changed_files) :
                 /\ targets[j].dir = RepoRoot \o DirOf(changed_files[i])
                 /\ \/ NameOf(changed_files[i]) \in DependencyNames
                    \/ EndsWith(NameOf(changed_files[i]), <<".", "g", "o">>)

\* go.mod and go.sum of the root changed: the single target ./...
C16_Witness ==
    /\ Resolved
    /\ backend = "go"
    /\ changed_files = <<(<<go_mod>>), <<go_sum>>>>
    /\ targets = <<Target(<<".", "/", ".", ".", ".">>, RepoRoot)>>

----------------------------------------------------------------------------
(* one label per package *)

\* C17: whichever route produced it (package deduplication of the query
\* result, or the ancestor-search fallback), the label of a target in
\* package directory P is the label resolve_target(root, P) gives, the
\* repository root included.
C17_OneLabelPerPackage ==
    (Resolved /\ backend = "bazel")
        => \A j \in 1..Len(targets) :
              targets[j].label
                  = Bazel_resolve_target(RepoRoot, targets[j].dir).label

====
